---- MODULE Spec2Model ----
(***************************************************************************)
(* mongoproxy: the per-connection loop (handleConnection) driving one      *)
(* frame at a time through the pipeline whose stage is the backend         *)
(* execution stage (MongodModule.Process, mongo-driver version).           *)
(*                                                                         *)
(* The backend (mongo-driver client, sessions, cursors) and the wire codec *)
(* (messages.Decode / messages.Encode) are collaborators: what they return *)
(* is chosen nondeterministically by the actions and recorded in scn/enc.  *)
(*                                                                         *)
(* Four specifications share the variables and Init:                       *)
(*   Spec        one connection worker and the backend stage, in detail;   *)
(*   SpecStages  BIModule.Process with the backend stage as its next;      *)
(*   SpecChain   a pipeline built from a chain of recording stages;        *)
(*   SpecServer  the mains, the acceptor loop of Start and its workers,    *)
(*               which share one MongodModule (lazy connect step by step). *)
(* Each leaves the variables of the others unchanged.  A fifth, SpecPure,  *)
(* draws the argument of a pure function (ParseNamespace) or the receiver  *)
(* and file of a Config method (AsConnectionString, ParseConfigFromFile)   *)
(* in its own initial predicate and applies the function to it.            *)
(***************************************************************************)
EXTENDS Integers, Sequences, FiniteSets, TLC

\* ---------------------------------------------------------------- bounds
MaxFrames == 2      \* frames a client sends on the connection
MaxDocs   == 2      \* documents a backend cursor can hold
MaxLimit  == 2      \* largest Find limit / GetMore batch size requested

VARIABLES
    pc,          \* position of the worker in handleConnection / Process
    connOpen,    \* the client connection has not been closed
    closeCause,  \* why the worker ended ("none" while it runs)
    nread,       \* frames decoded so far; the current frame's request id
    hdr,         \* msgHeader of the current frame
    req,         \* message (the decoded request) of the current frame
    res,         \* *res, the ModuleResponse of the current frame
    enc,         \* (bytes, err) returned by messages.Encode for the frame
    wire,        \* replies written to the client, oldest first
    log,         \* events of the worker, oldest first
    Client,      \* MongodModule.Client
    ReadOnly,    \* MongodModule.ReadOnly
    scn,         \* what the backend did during the current Process call
    ops,         \* backend operations issued by the current Process call
    nextCalls,   \* times Process called next for the current frame
    nextArgs     \* the request and the response each of these calls was given

\* the per-connection loop and the backend stage it drives
mainVars == <<pc, connOpen, closeCause, nread, hdr, req, res, enc, wire, log,
              Client, ReadOnly, scn, ops, nextCalls, nextArgs>>

\* BIModule.Process, the observer stage in front of the backend stage
VARIABLES
    biPc,          \* position in BIModule.Process
    biReq,         \* req given to BIModule.Process
    biUpdates,     \* updates the rules derive from req (Insert only)
    biRes,         \* *res, the response given to BIModule.Process
    resNext,       \* resNext, the response BIModule hands to next
    mongoSession,  \* BIModule.mongoSession
    biOps          \* the call of next, sessions copied and closed, updates run

stageVars == <<biPc, biReq, biUpdates, biRes, resNext, mongoSession, biOps>>

\* a pipeline built from a chain of stages that record their entry and exit
VARIABLES
    chainLen,      \* stages of the chain the pipeline was built from, 0 before
    chainReq,      \* the request the pipeline was called with
    chainStack,    \* the Process calls in progress, outermost first
    chainLog       \* events recorded by the stages during the current call

chainVars == <<chainLen, chainReq, chainStack, chainLog>>

\* the acceptor loop of Start and the workers it spawns, which share one
\* MongodModule
VARIABLES
    acceptor,        \* position of Start: "init", "accept", "stopped"
    acceptErr,       \* err of the last ln.Accept(): "none", "nil", "error"
    accepted,        \* connections ln.Accept() has returned
    afterError,      \* the Accept before the last successful one failed
    busyAtAccept,    \* workers inside Process when the last one succeeded
    wpc,             \* position of each worker, "unborn" before it is spawned
    mClient,         \* m.Client of the shared module: 0 is nil, else a client
    clientsCreated,  \* clients mongo.Connect has created
    alive            \* the process has not been ended by a panic

serverVars == <<acceptor, acceptErr, accepted, afterError, busyAtAccept, wpc, mClient, clientsCreated, alive>>

\* main (or a caller of StartWithConfig) up to the call of Start
VARIABLES
    boot,            \* position of the startup: "flags", "loaded", "built"
    entry,           \* how the server is started: "main", "StartWithConfig"
    cfgLoad,         \* how the configuration was loaded: "env", "file", "error"
    cfgReadOnly,     \* ReadOnly of the configuration that was loaded
    modConfigured,   \* Configure has been called on the stage in the chain
    modReadOnly      \* ReadOnly of the stage in the chain

bootVars == <<boot, entry, cfgLoad, cfgReadOnly, modConfigured, modReadOnly>>

\* one call of a pure function of the codec, or of a method of server.Config
VARIABLES
    pfIn,            \* the function called and its argument
    pfOut,           \* what it returned, once it has
    cfg,             \* the server.Config a Config method is called on
    cfIn,            \* the Config method called and the file it is given
    cfOut            \* how the method ended and what it returned

pureVars == <<pfIn, pfOut, cfg, cfIn, cfOut>>

\* what the per-connection loop leaves alone
otherVars == <<stageVars, chainVars, serverVars, bootVars, pureVars>>

\* what BIModule.Process leaves alone
exceptStage == <<mainVars, chainVars, serverVars, bootVars, pureVars>>

\* what the pipeline of recording stages leaves alone
exceptChain == <<mainVars, stageVars, serverVars, bootVars, pureVars>>

\* what the acceptor and its workers leave alone
exceptServer == <<mainVars, stageVars, chainVars, bootVars, pureVars>>

\* what the startup leaves alone
exceptBoot == <<mainVars, stageVars, chainVars, serverVars, pureVars>>

\* what a call of a pure function leaves alone
exceptPure == <<mainVars, stageVars, chainVars, serverVars, bootVars>>

vars == <<mainVars, otherVars>>

\* ------------------------------------------------------------ sequences
Prefix(n) == [i \in 1..n |-> i]

Take(s, n) == SubSeq(s, 1, IF n < Len(s) THEN n ELSE Len(s))

Min(a, b) == IF a < b THEN a ELSE b

\* --------------------------------------------------------------- errors
NilErr == [kind |-> "nil", Code |-> 0, Message |-> ""]

CommandErrors ==
    { [kind |-> "CommandError", Code |-> 43, Message |-> "cursor not found"],
      [kind |-> "CommandError", Code |-> 96, Message |-> "operation failed"] }

OtherErr == [kind |-> "other", Code |-> 0, Message |-> "connection reset"]

ErrNilCursor == [kind |-> "ErrNilCursor", Code |-> 0, Message |-> "cursor is nil"]

BackendErrors == CommandErrors \cup {OtherErr}

CursorErrors == BackendErrors \cup {ErrNilCursor}

\* ------------------------------------------------------ backend replies
\* "ok" is kept as the reply document holds it: the numbers 1 and 0, the
\* boolean false, or no "ok" key at all.
NoReply == [ok |-> "absent", hasN |-> FALSE, n |-> 0, nModified |-> 0, code |-> 0, errmsg |-> ""]

Replies ==
    { [ok |-> "1", hasN |-> TRUE,  n |-> 1, nModified |-> 1, code |-> 0, errmsg |-> ""],
      [ok |-> "1", hasN |-> FALSE, n |-> 0, nModified |-> 0, code |-> 0, errmsg |-> ""],
      [ok |-> "0", hasN |-> FALSE, n |-> 0, nModified |-> 0, code |-> 11000, errmsg |-> "duplicate key"],
      [ok |-> "false", hasN |-> FALSE, n |-> 0, nModified |-> 0, code |-> 2, errmsg |-> "bad value"],
      [ok |-> "absent", hasN |-> FALSE, n |-> 0, nModified |-> 0, code |-> 0, errmsg |-> ""] }

SkippedReply == [ok |-> "1", hasN |-> FALSE, n |-> 0, nModified |-> 0, code |-> 0, errmsg |-> ""]

\* convert.ToInt: the number a value holds, 0 for what is not a number
ToInt(v) == IF v = "1" THEN 1 ELSE 0

ReplyFailedOnZeroOnly(reply) == reply.ok = "0"

\* if convert.ToInt(reply["ok"]) == 0
ReplyFailed(reply) == ToInt(reply.ok) = 0

\* ------------------------------------------------- requests and frames
CommandNames == {"ismaster", "createIndexes", "ping", "count"}

CursorIDs == {7, 9}

Limits == 0..MaxLimit

\* int32 batch sizes a GetMore can ask for, a negative one included
BatchSizes == -1..MaxLimit

\* the namespace a cursor was opened on: the GetMore requests enumerated
\* name cursor 7 on db1.c1 and cursor 9 on db2.c2
CursorNamespace(cid) ==
    IF cid = 7 THEN [Database |-> "db1", Collection |-> "c1"]
    ELSE IF cid = 9 THEN [Database |-> "db2", Collection |-> "c2"]
    ELSE [Database |-> "", Collection |-> ""]

Req(t, c, name, limit, batch, cid) ==
    [Type |-> t, convOK |-> c, CommandName |-> name, Limit |-> limit,
     BatchSize |-> batch, CursorID |-> cid,
     Database |-> CursorNamespace(cid).Database,
     Collection |-> CursorNamespace(cid).Collection]

NoReq == Req("none", TRUE, "", 0, 0, 0)

CommandReqs == { Req("Command", c, n, 0, 0, 0) : c \in BOOLEAN, n \in CommandNames }
FindReqs    == { Req("Find", c, "", l, 0, 0) : c \in BOOLEAN, l \in Limits }
InsertReqs  == { Req("Insert", c, "", 0, 0, 0) : c \in BOOLEAN }
UpdateReqs  == { Req("Update", c, "", 0, 0, 0) : c \in BOOLEAN }
DeleteReqs  == { Req("Delete", c, "", 0, 0, 0) : c \in BOOLEAN }
GetMoreReqs == { Req("GetMore", c, "", 0, b, id) : c \in BOOLEAN, b \in BatchSizes, id \in CursorIDs }
PassReqs    == { Req(t, TRUE, "", 0, 0, 0) : t \in {"Msg", "KillCursors", "Other"} }

\* The frames messages.Decode can hand to the loop: the op code of the
\* header and the typed request decoded from the body.
Frames ==
    { [op |-> "OP_QUERY", req |-> r] :
          r \in CommandReqs \cup FindReqs \cup InsertReqs \cup UpdateReqs \cup DeleteReqs }
    \cup { [op |-> "OP_INSERT", req |-> r] : r \in InsertReqs }
    \cup { [op |-> "OP_UPDATE", req |-> r] : r \in UpdateReqs }
    \cup { [op |-> "OP_DELETE", req |-> r] : r \in DeleteReqs }
    \cup { [op |-> "OP_GET_MORE", req |-> r] : r \in GetMoreReqs }
    \cup { [op |-> "OP_KILL_CURSORS", req |-> Req("KillCursors", TRUE, "", 0, 0, 0)],
           [op |-> "OP_MSG", req |-> Req("Msg", TRUE, "", 0, 0, 0)],
           [op |-> "OP_OTHER", req |-> Req("Other", TRUE, "", 0, 0, 0)] }

NoHeader == [OpCode |-> "none", RequestID |-> 0]

\* ------------------------------------------------------------ responses
NoWriter ==
    [kind |-> "nil", Documents |-> <<>>, N |-> 0, NModified |-> 0,
     CursorID |-> 0, Database |-> "", Collection |-> "",
     InvalidCursor |-> FALSE, Reply |-> NoReply]

NoCommandError == [set |-> FALSE, ErrorCode |-> 0, Message |-> ""]

EmptyResponse == [Writer |-> NoWriter, CommandError |-> NoCommandError]

\* ModuleResponse.Write sets the payload field, ModuleResponse.Error the
\* error field: the two fields BIModule.Process reads as resNext.Writer and
\* resNext.CommandError.  Neither clears the other.
Write(r, w) == [r EXCEPT !.Writer = w]

Error(r, code, msg) ==
    [r EXCEPT !.CommandError = [set |-> TRUE, ErrorCode |-> code, Message |-> msg]]

CommandResponse(reply) == [NoWriter EXCEPT !.kind = "Command", !.Reply = reply]

FindResponse(docs) == [NoWriter EXCEPT !.kind = "Find", !.Documents = docs]

InsertResponse(n) == [NoWriter EXCEPT !.kind = "Insert", !.N = n]

UpdateResponse(n, nm) == [NoWriter EXCEPT !.kind = "Update", !.N = n, !.NModified = nm]

DeleteResponse(n) == [NoWriter EXCEPT !.kind = "Delete", !.N = n]

GetMoreResponseZeroWhenDone(g, docs, invalid) ==
    [NoWriter EXCEPT !.kind = "GetMore",
                     !.CursorID = IF Len(docs) < g.BatchSize THEN 0 ELSE g.CursorID,
                     !.Database = g.Database, !.Collection = g.Collection,
                     !.Documents = docs, !.InvalidCursor = invalid]

\* messages.GetMoreResponse{CursorID: g.CursorID, Database: g.Database,
\* Collection: g.Collection, Documents / InvalidCursor}
GetMoreResponse(g, docs, invalid) ==
    [NoWriter EXCEPT !.kind = "GetMore", !.CursorID = g.CursorID,
                     !.Database = g.Database, !.Collection = g.Collection,
                     !.Documents = docs, !.InvalidCursor = invalid]

\* --------------------------------------------------- backend scenarios
\* session: StartSession succeeded;  docs: the result set the query
\* selects (Find) or the documents left in the cursor (GetMore), in cursor
\* order;  issueErr: error of Find / RunCommandCursor / RunCommand;
\* iterErr, iterOK: the error met while iterating and the number of
\* documents the cursor delivered before it;  reply: the command reply.
Scn(s, docs, ie, xe, xok, reply) ==
    [session |-> s, docs |-> docs, issueErr |-> ie, iterErr |-> xe,
     iterOK |-> xok, reply |-> reply]

NoScn == Scn(TRUE, <<>>, NilErr, NilErr, 0, NoReply)

Op(o, a) == [op |-> o, arg |-> a]

OutNextBeforeWrite(r, o, n, p) ==
    [res |-> r, ops |-> o, next |-> n, panic |-> p, atNext |-> EmptyResponse]

\* What the switch of Process leaves behind: the response, the backend
\* operations issued, the number of calls of next, and whether it panicked.
\* In every branch res.Write / res.Error come before next(req, res), which
\* is followed by return (or ends Process): the response next was given,
\* atNext, is the response as the branch wrote it.
Out(r, o, n, p) == [res |-> r, ops |-> o, next |-> n, panic |-> p, atNext |-> r]

ConversionFailedReportsError(r0) ==
    Out([r0 EXCEPT !.CommandError = [set |-> TRUE, ErrorCode |-> 1, Message |-> "conversion"]],
        <<>>, 1, FALSE)

\* opX, err := messages.ToXRequest(req); if err != nil: the error is
\* logged, next(req, res) is called and Process returns
ConversionFailed(r0) == Out(r0, <<>>, 1, FALSE)

NextRequestRewritten(rq) ==
    [rq EXCEPT !.CommandName = IF @ = "ismaster" THEN "isMaster" ELSE @]

\* next(req, res): the request handed on is the parameter req
NextRequest(rq) == rq

ErrorThenFallThrough(r, e) ==
    IF e.kind = "CommandError"
    THEN Write(Error(r, e.Code, e.Message), FindResponse(<<>>)) ELSE r

\* "log an error if we can": res.Error only for a typed *mongo.CommandError.
ErrorIfCommandError(r, e) ==
    IF e.kind = "CommandError" THEN Error(r, e.Code, e.Message) ELSE r

\* ---------------------------------------------------------- mongo.Cursor
Cursor(docs, xok, xe) == [docs |-> docs, iterOK |-> xok, err |-> xe]

\* cur.Next after pos documents were delivered; cur.Err() is .err.
CursorNext(cur, pos) ==
    IF cur.err # NilErr /\ pos = cur.iterOK
    THEN [ok |-> FALSE, err |-> cur.err]
    ELSE IF pos < Len(cur.docs)
         THEN [ok |-> TRUE, err |-> NilErr]
         ELSE [ok |-> FALSE, err |-> NilErr]

\* cur.All: every document, or the error met on the way.
CursorAll(cur) ==
    IF cur.err # NilErr /\ cur.iterOK <= Len(cur.docs)
    THEN [err |-> cur.err, docs |-> <<>>]
    ELSE [err |-> NilErr, docs |-> cur.docs]

\* c.Find(ctx, f.Filter, opts) with opts.SetLimit(f.Limit): the backend
\* hands out at most Limit documents of the result set when Limit > 0.
FindCursor(rq, s) ==
    Cursor(IF rq.Limit > 0 THEN Take(s.docs, rq.Limit) ELSE s.docs,
           s.iterOK, s.iterErr)

\* d.RunCommandCursor(ctx, g): a cursor over the documents that are left.
GetMoreCursor(rq, s) == Cursor(s.docs, s.iterOK, s.iterErr)

\* ----------------------------------------------------------------- Find
FindLoopBoundShort(rq) == rq.Limit - 1

\* for i := 0; i < int(f.Limit); i++
FindLoopBound(rq) == rq.Limit

RECURSIVE FindLoop(_, _, _, _, _)
FindLoop(i, bound, cur, results, o) ==
    IF i >= bound
    THEN [err |-> NilErr, results |-> results, ops |-> o]
    ELSE LET nx == CursorNext(cur, i)
             o1 == o \o <<Op("Next", ""), Op("Decode", "")>>
         IN  IF ~nx.ok
             THEN IF nx.err # NilErr
                  THEN [err |-> nx.err, results |-> results,
                        ops |-> o1 \o <<Op("Close", "")>>]
                  ELSE [err |-> NilErr, results |-> results, ops |-> o1]
             ELSE FindLoop(i + 1, bound, cur, Append(results, cur.docs[i + 1]), o1)

ProcessFind(rq, r0, s) ==
    IF ~rq.convOK THEN ConversionFailed(r0)
    ELSE IF s.issueErr # NilErr
    THEN \* cur is nil: cur.Next / cur.All dereference it
         Out(ErrorIfCommandError(r0, s.issueErr), <<Op("Find", "")>>, 0, TRUE)
    ELSE LET cur == FindCursor(rq, s)
         IN  IF rq.Limit > 0
             THEN LET l == FindLoop(0, FindLoopBound(rq), cur, <<>>, <<Op("Find", "")>>)
                  IN  IF l.err # NilErr
                      THEN Out(ErrorIfCommandError(r0, l.err), l.ops, 1, FALSE)
                      ELSE Out(Write(r0, FindResponse(l.results)), l.ops, 1, FALSE)
             ELSE LET a == CursorAll(cur)
                      o == <<Op("Find", ""), Op("All", "")>>
                  IN  IF a.err # NilErr
                      THEN Out(ErrorIfCommandError(r0, a.err), o, 1, FALSE)
                      ELSE Out(Write(r0, FindResponse(a.docs)), o, 1, FALSE)

\* -------------------------------------------------------------- GetMore
GetMoreLoopToCursorEnd(rq) == MaxDocs + 1

\* for i := 0; i < int(g.BatchSize); i++
GetMoreLoopBound(rq) == rq.BatchSize

RECURSIVE GetMoreLoop(_, _, _, _, _)
GetMoreLoop(i, bound, cur, results, o) ==
    IF i >= bound
    THEN [err |-> NilErr, results |-> results, ops |-> o]
    ELSE LET nx == CursorNext(cur, i)
             o1 == Append(o, Op("Next", ""))
         IN  IF ~nx.ok
             THEN [err |-> nx.err, results |-> results, ops |-> o1]
             ELSE GetMoreLoop(i + 1, bound, cur, Append(results, cur.docs[i + 1]),
                              Append(o1, Op("Decode", "")))

InvalidCursorOnExhaustion(rq, l) == l.err = ErrNilCursor \/ Len(l.results) < rq.BatchSize

\* if err == mongo.ErrNilCursor
IsInvalidCursor(rq, l) == l.err = ErrNilCursor

ProcessGetMore(rq, r0, s) ==
    IF ~rq.convOK THEN ConversionFailed(r0)
    ELSE IF s.issueErr # NilErr
    THEN \* cur is nil and the deferred cur.Close(ctx) dereferences it
         Out(ErrorIfCommandError(r0, s.issueErr),
             <<Op("RunCommandCursor", "")>>, 1, TRUE)
    ELSE LET cur == GetMoreCursor(rq, s)
             l   == GetMoreLoop(0, GetMoreLoopBound(rq), cur, <<>>, <<Op("RunCommandCursor", "")>>)
             cl  == Op("Close", "")
         IN  IF IsInvalidCursor(rq, l)
             THEN Out(Write(r0, GetMoreResponse(rq, <<>>, TRUE)),
                      Append(l.ops, cl), 1, FALSE)
             ELSE IF l.err # NilErr
             THEN Out(ErrorIfCommandError(r0, l.err), l.ops \o <<cl, cl>>, 1, FALSE)
             ELSE Out(Write(r0, GetMoreResponse(rq, l.results, FALSE)),
                      Append(l.ops, cl), 1, FALSE)

\* -------------------------------------------------------------- Command
\* the document sent to the backend: "ismaster" is rewritten
CommandDoc(rq) == IF rq.CommandName = "ismaster" THEN "isMaster" ELSE rq.CommandName

NoCommandSkipped(name) == FALSE

\* case "createIndexes": the command is answered by the stage itself
IsSkippedCommand(name) == name = "createIndexes"

RunCommandRetried(cmd) == <<Op("RunCommand", cmd), Op("RunCommand", cmd)>>

\* session.Client().Database(db).RunCommand(ctx, b): the one place of a
\* Command, Insert, Update or Delete case that reaches the backend; its
\* error branch writes, calls next and returns
RunCommandOnce(cmd) == <<Op("RunCommand", cmd)>>

ProcessCommand(rq, r0, s) ==
    IF ~rq.convOK THEN ConversionFailed(r0)
    ELSE IF IsSkippedCommand(rq.CommandName)
    THEN Out(Write(r0, CommandResponse(SkippedReply)), <<>>, 0, FALSE)
    ELSE LET o == RunCommandOnce(CommandDoc(rq))
         IN  IF s.issueErr # NilErr
             THEN Out(IF s.issueErr.kind = "CommandError"
                      THEN Error(r0, s.issueErr.Code, s.issueErr.Message)
                      ELSE Error(r0, -1, "Unknown error"), o, 1, FALSE)
             ELSE IF ReplyFailed(s.reply)
             THEN Out(Error(r0, s.reply.code, s.reply.errmsg), o, 1, FALSE)
             ELSE Out(Write(r0, CommandResponse(s.reply)), o, 1, FALSE)

\* ------------------------------------------------ Insert, Update, Delete
\* convert.ToInt32(reply["n"], -1)
ReplyN(reply) == IF reply.hasN THEN reply.n ELSE -1

ReplyNModified(reply) == IF reply.hasN THEN reply.nModified ELSE -1

ReadOnlyIgnored(ro) == FALSE

\* if m.ReadOnly
ReadOnlyShortCircuit(ro) == ro

\* result.Err() != nil: the assertion err.(*mongo.WriteError) is made on the
\* (nil) conversion error, so nothing is written to the response.
ProcessWrite(rq, r0, s, ro, sentinel, cmd, payload) ==
    IF ~rq.convOK THEN ConversionFailed(r0)
    ELSE IF ReadOnlyShortCircuit(ro) THEN Out(Write(r0, sentinel), <<>>, 0, FALSE)
    ELSE LET o == RunCommandOnce(cmd)
         IN  IF s.issueErr # NilErr THEN Out(r0, o, 1, FALSE)
             ELSE IF ReplyFailed(s.reply)
             THEN Out(Error(r0, s.reply.code, s.reply.errmsg), o, 1, FALSE)
             ELSE Out(Write(r0, payload), o, 1, FALSE)

ProcessInsert(rq, r0, s, ro) ==
    ProcessWrite(rq, r0, s, ro, InsertResponse(-1), "insert",
                 InsertResponse(ReplyN(s.reply)))

ProcessUpdate(rq, r0, s, ro) ==
    ProcessWrite(rq, r0, s, ro, UpdateResponse(-1, -1), "update",
                 UpdateResponse(ReplyN(s.reply), ReplyNModified(s.reply)))

ProcessDelete(rq, r0, s, ro) ==
    ProcessWrite(rq, r0, s, ro, DeleteResponse(-1), "delete",
                 DeleteResponse(ReplyN(s.reply)))

UnsupportedRejected(rq, r0) ==
    IF rq.Type = "Other" THEN Error(r0, 59, "unsupported operation") ELSE r0

\* the bodies of case messages.MsgType and case messages.KillCursorsType
\* are empty and default only logs: the response is not touched
PassResponse(rq, r0) == r0

ProcessPassNextTwice(rq, r0, s) == Out(PassResponse(rq, r0), <<>>, 2, FALSE)

\* case messages.MsgType, messages.KillCursorsType, default
ProcessPass(rq, r0, s) == Out(PassResponse(rq, r0), <<>>, 1, FALSE)

\* ------------------------------------------- scenarios the backend offers
CursorScns(errs) ==
    { Scn(TRUE, <<>>, e, NilErr, 0, NoReply) : e \in errs }
    \cup { Scn(TRUE, Prefix(m), NilErr, NilErr, 0, NoReply) : m \in 0..MaxDocs }
    \cup UNION { { Scn(TRUE, Prefix(m), NilErr, e, k, NoReply) : k \in 0..m, e \in errs }
                 : m \in 0..MaxDocs }

CommandScns ==
    { Scn(TRUE, <<>>, e, NilErr, 0, NoReply) : e \in BackendErrors }
    \cup { Scn(TRUE, <<>>, NilErr, NilErr, 0, r) : r \in Replies }

\* the backend is reached only by a request that converts and is not
\* answered locally
FindScns(rq) == IF rq.convOK THEN CursorScns(BackendErrors) ELSE {NoScn}

GetMoreScns(rq) == IF rq.convOK THEN CursorScns(CursorErrors) ELSE {NoScn}

CommandCaseScns(rq) ==
    IF rq.convOK /\ rq.CommandName # "createIndexes" THEN CommandScns ELSE {NoScn}

WriteScns(rq, ro) == IF rq.convOK /\ ~ro THEN CommandScns ELSE {NoScn}

\* ------------------------------------------------------- messages.Encode
\* the reply frame: response-to is the request id of the header given
ReplyFrame(h, r) ==
    [ResponseTo |-> h.RequestID,
     Kind |-> IF r.CommandError.set THEN "error" ELSE r.Writer.kind]

NoEnc == [err |-> FALSE, bytes |-> [ResponseTo |-> 0, Kind |-> "nil"]]

Encode(h, r, fails) ==
    IF fails THEN [err |-> TRUE, bytes |-> NoEnc.bytes]
    ELSE [err |-> FALSE, bytes |-> ReplyFrame(h, r)]

\* ------------------------------------------------------ handleConnection
\* what a response holds
Shape(r) ==
    IF r.CommandError.set THEN "error"
    ELSE IF r.Writer.kind # "nil" THEN "payload" ELSE "empty"

Ev(e, id) == [ev |-> e, id |-> id, shape |-> "", encErr |-> FALSE]

\* message, msgHeader, bytes and the Process call's bookkeeping are local to
\* one iteration of the loop
LoopBack ==
    /\ pc' = "AwaitFrame"
    /\ hdr' = NoHeader
    /\ req' = NoReq
    /\ enc' = NoEnc
    /\ scn' = NoScn
    /\ ops' = <<>>
    /\ nextCalls' = 0
    /\ nextArgs' = <<>>

SuppressedInsertUpdateOnly(h) == h.OpCode \in {"OP_UPDATE", "OP_INSERT"}

\* msgHeader.OpCode == OP_UPDATE || OP_INSERT || OP_DELETE
IsSuppressed(h) == h.OpCode \in {"OP_UPDATE", "OP_INSERT", "OP_DELETE"}

StaleResponse(old) == old

\* res := &messages.ModuleResponse{}
FreshResponse(old) == EmptyResponse

\* BIModule after construction: no session dialled, no call in progress
StageInit ==
    /\ biPc = "idle"
    /\ biReq = NoReq
    /\ biUpdates = 0
    /\ biRes = EmptyResponse
    /\ resNext = EmptyResponse
    /\ mongoSession = "nil"
    /\ biOps = <<>>

\* no pipeline built yet
ChainInit ==
    /\ chainLen = 0
    /\ chainReq = NoReq
    /\ chainStack = <<>>
    /\ chainLog = <<>>

MaxConns == 2       \* connections the listener hands out

MaxClients == 2     \* clients mongo.Connect creates before it only fails

Workers == 1..MaxConns

\* Start has not listened yet; the module is configured, not connected
ServerInit ==
    /\ acceptor = "init"
    /\ acceptErr = "none"
    /\ accepted = 0
    /\ afterError = FALSE
    /\ busyAtAccept = 0
    /\ wpc = [w \in Workers |-> "unborn"]
    /\ mClient = 0
    /\ clientsCreated = 0
    /\ alive = TRUE

\* the process has started; the stage is a zero MongodModule
BootInit ==
    /\ boot = "flags"
    /\ entry = "none"
    /\ cfgLoad = "none"
    /\ cfgReadOnly = FALSE
    /\ modConfigured = FALSE
    /\ modReadOnly = FALSE

\* the worker of a connection at the top of its loop; the stage configured
\* and not connected
MainInit ==
    /\ pc = "AwaitFrame"
    /\ connOpen = TRUE
    /\ closeCause = "none"
    /\ nread = 0
    /\ hdr = NoHeader
    /\ req = NoReq
    /\ res = EmptyResponse
    /\ enc = NoEnc
    /\ wire = <<>>
    /\ log = <<>>
    /\ Client = "nil"
    /\ ReadOnly \in BOOLEAN
    /\ scn = NoScn
    /\ ops = <<>>
    /\ nextCalls = 0
    /\ nextArgs = <<>>

NoCall == [fn |-> "none", arg |-> <<>>]

NoResult == [done |-> FALSE]

\* var c server.Config: the zero value.  Strings are sequences of pieces,
\* Timeout is in seconds.
ZeroConfig ==
    [Scheme |-> <<>>, Hosts |-> <<>>, TLS |-> FALSE, Database |-> <<>>,
     Username |-> <<>>, Password |-> <<>>, Timeout |-> 0, OptParams |-> <<>>,
     ReadOnly |-> FALSE, Port |-> 0]

NoFile ==
    [readable |-> FALSE, json |-> FALSE, mongod |-> FALSE, bad |-> 0,
     badKind |-> "none", tls |-> <<>>, timeout |-> <<>>, port |-> <<>>,
     readonly |-> <<>>]

\* no pure function is being called
PureIdle ==
    /\ pfIn = NoCall
    /\ pfOut = NoResult
    /\ cfg = ZeroConfig
    /\ cfIn = [fn |-> "none", file |-> NoFile]
    /\ cfOut = [done |-> FALSE, ret |-> "none", url |-> <<>>]

Init ==
    /\ StageInit
    /\ ChainInit
    /\ ServerInit
    /\ BootInit
    /\ PureIdle
    /\ MainInit

ReadyToDecodeBeforeReply == pc \in {"AwaitFrame", "Encode"}

\* for { message, msgHeader, err := messages.Decode(conn) ...: the next frame
\* is read only at the top of the loop
ReadyToDecode == pc = "AwaitFrame"

\* messages.Decode returned a frame
DecodeFrame ==
    /\ UNCHANGED otherVars
    /\ ReadyToDecode
    /\ nread < MaxFrames
    /\ \E f \in Frames :
          /\ hdr' = [OpCode |-> f.op, RequestID |-> nread + 1]
          /\ req' = f.req
    /\ nread' = nread + 1
    /\ pc' = "RunPipeline"
    /\ log' = Append(log, Ev("Decode", nread + 1))
    /\ UNCHANGED <<connOpen, closeCause, res, enc, wire, Client, ReadOnly, scn,
                   ops, nextCalls, nextArgs>>

\* messages.Decode returned an error (io.EOF included): close and return
DecodeError ==
    /\ UNCHANGED otherVars
    /\ ReadyToDecode
    /\ \E cause \in {"eof", "decode"} : closeCause' = cause
    /\ connOpen' = FALSE
    /\ pc' = "closed"
    /\ log' = Append(log, Ev("Close", nread))
    /\ UNCHANGED <<nread, hdr, req, res, enc, wire, Client, ReadOnly, scn, ops,
                   nextCalls, nextArgs>>

AlwaysReconnect(cl) == TRUE

\* if m.Client == nil
NeedsConnect(cl) == cl = "nil"

ConnectKeepsFailedHandle(connected) == "client"

\* m.Client, err = mongo.Connect(...): the field is assigned whatever
\* Connect returns, which is nil together with an error
ConnectResult(connected) == IF connected THEN "client" ELSE "nil"

\* res := &ModuleResponse{}; pipeline(message, res) enters Process, which
\* connects lazily; a failed connect calls next and returns
RunPipeline ==
    /\ UNCHANGED otherVars
    /\ pc = "RunPipeline"
    /\ scn' = NoScn
    /\ log' = Append(log, Ev("PipelineCall", hdr.RequestID))
    /\ IF ~NeedsConnect(Client)
       THEN /\ res' = FreshResponse(res)
            /\ ops' = <<>>
            /\ nextCalls' = 0
            /\ nextArgs' = <<>>
            /\ pc' = "InProcess"
            /\ UNCHANGED Client
       ELSE \E connected \in BOOLEAN :
               /\ res' = FreshResponse(res)
               /\ ops' = <<Op("Connect", "")>>
               /\ Client' = ConnectResult(connected)
               /\ nextCalls' = IF connected THEN 0 ELSE 1
               /\ nextArgs' = IF connected THEN <<>>
                               ELSE <<[req |-> NextRequest(req), res |-> FreshResponse(res)]>>
               /\ pc' = IF connected THEN "InProcess" ELSE "ConnectFailed"
    /\ UNCHANGED <<connOpen, closeCause, nread, hdr, req, enc, wire, ReadOnly>>

\* Process returns after the failed connect
ConnectFailedReturn ==
    /\ UNCHANGED otherVars
    /\ pc = "ConnectFailed"
    /\ pc' = "Encode"
    /\ log' = Append(log, Ev("PipelineReturn", hdr.RequestID))
    /\ UNCHANGED <<connOpen, closeCause, nread, hdr, req, res, enc, wire, Client,
                   ReadOnly, scn, ops, nextCalls, nextArgs>>

\* a panic in the worker's goroutine ends the process
Crash ==
    /\ pc' = "crashed"
    /\ connOpen' = FALSE
    /\ closeCause' = "panic"
    /\ log' = Append(log, Ev("Panic", hdr.RequestID))

\* m.Client.StartSession() failed: session is nil and
\* defer session.EndSession(ctx) panics
SessionPanic ==
    /\ UNCHANGED otherVars
    /\ pc = "InProcess"
    /\ scn' = [NoScn EXCEPT !.session = FALSE]
    /\ ops' = Append(ops, Op("StartSession", ""))
    /\ Crash
    /\ UNCHANGED <<nread, hdr, req, res, enc, wire, Client, ReadOnly, nextCalls, nextArgs>>

\* the switch ran under a session; the deferred EndSession runs on return
\* and on panic alike
Finish(s, out) ==
    /\ scn' = s
    /\ res' = out.res
    /\ ops' = ops \o <<Op("StartSession", "")>> \o out.ops \o <<Op("EndSession", "")>>
    /\ nextCalls' = out.next
    /\ nextArgs' = [i \in 1..out.next |-> [req |-> NextRequest(req), res |-> out.atNext]]
    /\ IF out.panic
       THEN Crash
       ELSE /\ pc' = "Encode"
            /\ log' = Append(log, Ev("PipelineReturn", hdr.RequestID))
            /\ UNCHANGED <<connOpen, closeCause>>
    /\ UNCHANGED <<nread, hdr, req, enc, wire, Client, ReadOnly>>

DoCommand ==
    /\ UNCHANGED otherVars
    /\ pc = "InProcess" /\ req.Type = "Command"
    /\ \E s \in CommandCaseScns(req) : Finish(s, ProcessCommand(req, res, s))

DoFind ==
    /\ UNCHANGED otherVars
    /\ pc = "InProcess" /\ req.Type = "Find"
    /\ \E s \in FindScns(req) : Finish(s, ProcessFind(req, res, s))

DoInsert ==
    /\ UNCHANGED otherVars
    /\ pc = "InProcess" /\ req.Type = "Insert"
    /\ \E s \in WriteScns(req, ReadOnly) : Finish(s, ProcessInsert(req, res, s, ReadOnly))

DoUpdate ==
    /\ UNCHANGED otherVars
    /\ pc = "InProcess" /\ req.Type = "Update"
    /\ \E s \in WriteScns(req, ReadOnly) : Finish(s, ProcessUpdate(req, res, s, ReadOnly))

DoDelete ==
    /\ UNCHANGED otherVars
    /\ pc = "InProcess" /\ req.Type = "Delete"
    /\ \E s \in WriteScns(req, ReadOnly) : Finish(s, ProcessDelete(req, res, s, ReadOnly))

DoGetMore ==
    /\ UNCHANGED otherVars
    /\ pc = "InProcess" /\ req.Type = "GetMore"
    /\ \E s \in GetMoreScns(req) : Finish(s, ProcessGetMore(req, res, s))

DoPass ==
    /\ UNCHANGED otherVars
    /\ pc = "InProcess" /\ req.Type \in {"Msg", "KillCursors", "Other"}
    /\ Finish(NoScn, ProcessPass(req, res, NoScn))

HeaderOfEarlierFrame(h) == [h EXCEPT !.RequestID = h.RequestID - 1]

\* the msgHeader given to messages.Encode: the variable the Decode of this
\* iteration assigned
HeaderGivenToEncode(h) == h

\* bytes, err := messages.Encode(msgHeader, *res)
EncodeReply ==
    /\ UNCHANGED otherVars
    /\ pc = "Encode"
    /\ \E fails \in BOOLEAN : enc' = Encode(HeaderGivenToEncode(hdr), res, fails)
    /\ pc' = "Decide"
    /\ log' = Append(log, Ev("Encode", hdr.RequestID))
    /\ UNCHANGED <<connOpen, closeCause, nread, hdr, req, res, wire, Client,
                   ReadOnly, scn, ops, nextCalls, nextArgs>>

\* Insert/Update/Delete op codes: continue
SuppressReply ==
    /\ UNCHANGED otherVars
    /\ pc = "Decide"
    /\ IsSuppressed(hdr)
    /\ LoopBack
    /\ log' = Append(log, [Ev("Suppress", hdr.RequestID) EXCEPT
                              !.shape = Shape(res), !.encErr = enc.err])
    /\ UNCHANGED <<connOpen, closeCause, nread, res, wire, Client, ReadOnly>>

\* Encode failed: close and return
EncodeFailed ==
    /\ UNCHANGED otherVars
    /\ pc = "Decide"
    /\ ~IsSuppressed(hdr)
    /\ enc.err
    /\ connOpen' = FALSE
    /\ closeCause' = "encode"
    /\ pc' = "closed"
    /\ log' = Append(log, Ev("Close", hdr.RequestID))
    /\ UNCHANGED <<nread, hdr, req, res, enc, wire, Client, ReadOnly, scn, ops,
                   nextCalls, nextArgs>>

\* conn.Write(bytes) succeeded
WriteReply ==
    /\ UNCHANGED otherVars
    /\ pc = "Decide"
    /\ ~IsSuppressed(hdr)
    /\ ~enc.err
    /\ wire' = Append(wire, enc.bytes)
    /\ LoopBack
    /\ log' = Append(log, Ev("Write", hdr.RequestID))
    /\ UNCHANGED <<connOpen, closeCause, nread, res, Client, ReadOnly>>

\* conn.Write(bytes) failed: close and return
WriteFailed ==
    /\ UNCHANGED otherVars
    /\ pc = "Decide"
    /\ ~IsSuppressed(hdr)
    /\ ~enc.err
    /\ connOpen' = FALSE
    /\ closeCause' = "write"
    /\ pc' = "closed"
    /\ log' = Append(log, Ev("Close", hdr.RequestID))
    /\ UNCHANGED <<nread, hdr, req, res, enc, wire, Client, ReadOnly, scn, ops,
                   nextCalls, nextArgs>>

Next ==
    \/ DecodeFrame
    \/ DecodeError
    \/ RunPipeline
    \/ ConnectFailedReturn
    \/ SessionPanic
    \/ DoCommand
    \/ DoFind
    \/ DoInsert
    \/ DoUpdate
    \/ DoDelete
    \/ DoGetMore
    \/ DoPass
    \/ EncodeReply
    \/ SuppressReply
    \/ EncodeFailed
    \/ WriteReply
    \/ WriteFailed

Spec == Init /\ [][Next]_vars

\* ------------------------------------------------- MongodModule as `next`
\* the switch of MongodModule.Process on the request type
Switch(rq, r0, s, ro) ==
    IF rq.Type = "Command" THEN ProcessCommand(rq, r0, s)
    ELSE IF rq.Type = "Find" THEN ProcessFind(rq, r0, s)
    ELSE IF rq.Type = "Insert" THEN ProcessInsert(rq, r0, s, ro)
    ELSE IF rq.Type = "Update" THEN ProcessUpdate(rq, r0, s, ro)
    ELSE IF rq.Type = "Delete" THEN ProcessDelete(rq, r0, s, ro)
    ELSE IF rq.Type = "GetMore" THEN ProcessGetMore(rq, r0, s)
    ELSE ProcessPass(rq, r0, s)

SwitchScns(rq, ro) ==
    IF rq.Type = "Command" THEN CommandCaseScns(rq)
    ELSE IF rq.Type = "Find" THEN FindScns(rq)
    ELSE IF rq.Type \in {"Insert", "Update", "Delete"} THEN WriteScns(rq, ro)
    ELSE IF rq.Type = "GetMore" THEN GetMoreScns(rq)
    ELSE {NoScn}

\* every way MongodModule.Process can end when called on response r0: the
\* connect failed, StartSession failed (panic), or the switch ran
StageOutcomes(rq, r0, ro) ==
    { Out(r0, <<>>, 1, FALSE), Out(r0, <<>>, 0, TRUE) }
    \cup { Switch(rq, r0, s, ro) : s \in SwitchScns(rq, ro) }

\* --------------------------------------------------- BIModule.Process
MaxUpdates == 2     \* updates the rules derive from one Insert

Requests == { f.req : f \in Frames }

\* the handler calls the pipeline, whose first stage is BIModule, with an
\* empty response;  resNext := messages.ModuleResponse{}
BICall ==
    /\ biPc \in {"idle", "returned"}
    /\ \E rq \in Requests, n \in 0..MaxUpdates :
          /\ biReq' = rq
          /\ biUpdates' = IF rq.Type = "Insert" THEN n ELSE 0
    /\ biRes' = EmptyResponse
    /\ resNext' = EmptyResponse
    /\ biOps' = <<>>
    /\ biPc' = "next"
    /\ UNCHANGED <<mongoSession, exceptStage>>

\* next(req, &resNext): the backend stage runs on resNext
BINext ==
    /\ biPc = "next"
    /\ \E o \in StageOutcomes(biReq, resNext, ReadOnly) :
          /\ resNext' = o.res
          /\ biPc' = IF o.panic THEN "crashed" ELSE "copy"
    /\ biOps' = Append(biOps, Op("next", ""))
    /\ UNCHANGED <<biReq, biUpdates, biRes, mongoSession, exceptStage>>

\* res.Write(resNext.Writer); if resNext.CommandError != nil { res.Error(...) }
CopyResponse(r, rn) ==
    IF rn.CommandError.set
    THEN Error(Write(r, rn.Writer), rn.CommandError.ErrorCode, rn.CommandError.Message)
    ELSE Write(r, rn.Writer)

AggregatesAfterError(rn) == "dial"

\* if resNext.CommandError != nil { res.Error(...); return }: a downstream
\* error ends the call, otherwise the aggregation follows
AfterCopy(rn) == IF rn.CommandError.set THEN "returned" ELSE "dial"

\* the downstream response is copied; a downstream error ends the call
BICopy ==
    /\ biPc = "copy"
    /\ biRes' = CopyResponse(biRes, resNext)
    /\ biPc' = AfterCopy(resNext)
    /\ UNCHANGED <<biReq, biUpdates, resNext, mongoSession, biOps, exceptStage>>

\* if b.mongoSession == nil { b.mongoSession, err = mgo.DialWithInfo(...) }:
\* a failed dial ends the call;  session := b.mongoSession.Copy()
BIDial ==
    /\ biPc = "dial"
    /\ IF mongoSession # "nil"
       THEN /\ biOps' = Append(biOps, Op("Copy", ""))
            /\ biPc' = "aggregate"
            /\ UNCHANGED mongoSession
       ELSE \E dialled \in BOOLEAN :
               /\ mongoSession' = IF dialled THEN "session" ELSE "nil"
               /\ biOps' = biOps \o (IF dialled THEN <<Op("Dial", ""), Op("Copy", "")>>
                                                  ELSE <<Op("Dial", "")>>)
               /\ biPc' = IF dialled THEN "aggregate" ELSE "returned"
    /\ UNCHANGED <<biReq, biUpdates, biRes, resNext, exceptStage>>

\* for an Insert the derived updates are run one by one, errors are only
\* logged;  defer session.Close()
BIAggregate ==
    /\ biPc = "aggregate"
    /\ \E failed \in SUBSET (1..biUpdates) :
          biOps' = biOps
                   \o [i \in 1..biUpdates |->
                          Op("Run", IF i \in failed THEN "error" ELSE "ok")]
                   \o <<Op("Close", "")>>
    /\ biPc' = "returned"
    /\ UNCHANGED <<biReq, biUpdates, biRes, resNext, mongoSession, exceptStage>>

NextStages ==
    \/ BICall
    \/ BINext
    \/ BICopy
    \/ BIDial
    \/ BIAggregate

SpecStages == Init /\ [][NextStages]_vars

\* ------------------------------------------------- server.BuildPipeline
MaxStages == 4      \* stages in a chain

\* one Process call in progress: "start" before the stage has called next,
\* "waiting" while next runs, "after" once next has returned
Frame(i, at) == [stage |-> i, at |-> at]

StageEv(e, i, rq) == [ev |-> e, stage |-> i, req |-> rq]

NextStageSkipsOne(i, n) == IF i + 1 < n THEN i + 2 ELSE 0

\* the next of stage i in a chain of n stages: the entry of stage i + 1;
\* 0 stands for the no-op the last stage is given
NextStage(i, n) == IF i < n THEN i + 1 ELSE 0

\* pipeline := server.BuildPipeline(chain)
BuildPipeline ==
    /\ chainLen = 0
    /\ chainLen' \in 1..MaxStages
    /\ UNCHANGED <<chainReq, chainStack, chainLog, exceptChain>>

\* pipeline(message, res): the entry function is the entry of stage 1
CallPipeline ==
    /\ chainLen > 0 /\ chainStack = <<>>
    /\ chainReq' \in Requests
    /\ chainStack' = <<Frame(1, "start")>>
    /\ chainLog' = <<>>
    /\ UNCHANGED <<chainLen, exceptChain>>

\* the running stage records its entry and calls next: the next stage is
\* entered, or the no-op returns at once
StageCallsNext ==
    /\ chainStack # <<>>
    /\ LET d == Len(chainStack)
           f == chainStack[d]
           nx == NextStage(f.stage, chainLen)
       IN  /\ f.at = "start"
           /\ chainLog' = Append(chainLog, StageEv("enter", f.stage, chainReq))
           /\ chainStack' =
                IF nx = 0 THEN [chainStack EXCEPT ![d].at = "after"]
                ELSE Append([chainStack EXCEPT ![d].at = "waiting"], Frame(nx, "start"))
    /\ UNCHANGED <<chainLen, chainReq, exceptChain>>

\* next has returned: the running stage records its exit and returns to
\* the stage that called it
StageReturns ==
    /\ chainStack # <<>>
    /\ LET d == Len(chainStack)
           f == chainStack[d]
       IN  /\ f.at = "after"
           /\ chainLog' = Append(chainLog, StageEv("exit", f.stage, chainReq))
           /\ chainStack' =
                IF d = 1 THEN <<>>
                ELSE [SubSeq(chainStack, 1, d - 1) EXCEPT ![d - 1].at = "after"]
    /\ UNCHANGED <<chainLen, chainReq, exceptChain>>

NextChain ==
    \/ BuildPipeline
    \/ CallPipeline
    \/ StageCallsNext
    \/ StageReturns

SpecChain == Init /\ [][NextChain]_vars

\* ------------------------------------------------ Start and its workers
\* main: the configuration is read from the file named by -f, or from the
\* environment; an error of ParseConfigFromFile is printed and main goes on,
\* a panic of ParseConfigFromFile (a field of the file that is absent or
\* not a string) ends main
MainLoadConfig ==
    /\ boot = "flags"
    /\ entry' = "main"
    /\ cfgLoad' \in {"env", "file", "error", "panic"}
    /\ cfgReadOnly' \in BOOLEAN
    /\ boot' = IF cfgLoad' = "panic" THEN "aborted" ELSE "loaded"
    /\ UNCHANGED <<modConfigured, modReadOnly, exceptBoot>>

\* main: module.Configure(c) (its result is dropped), CreateChain, AddModule
MainConfigure ==
    /\ boot = "loaded"
    /\ modConfigured' = TRUE
    /\ modReadOnly' = cfgReadOnly
    /\ boot' = "built"
    /\ UNCHANGED <<entry, cfgLoad, cfgReadOnly, exceptBoot>>

\* config.FromEnv(); StartWithConfig(port, config): the chain gets a new
\* MongodModule{} and config is not used
ServeWithConfig ==
    /\ boot = "flags"
    /\ entry' = "StartWithConfig"
    /\ cfgLoad' = "env"
    /\ cfgReadOnly' \in BOOLEAN
    /\ boot' = "built"
    /\ UNCHANGED <<modConfigured, modReadOnly, exceptBoot>>

\* ln, err := net.Listen("tcp", ...): on error Start logs and returns
Listen ==
    /\ boot = "built"
    /\ alive /\ acceptor = "init"
    /\ \E ok \in BOOLEAN : acceptor' = IF ok THEN "accept" ELSE "stopped"
    /\ UNCHANGED <<acceptErr, accepted, afterError, busyAtAccept, wpc, mClient,
                   clientsCreated, alive, exceptServer>>

\* workers that are inside MongodModule.Process, waiting for the backend
InProcess == { w \in Workers : wpc[w] \in {"check", "connecting", "session", "backend"} }

AcceptorWaitsForWorker(w) == "serving"

\* go handleConnection(conn, pipeline): the loop goes on to the next Accept
AfterSpawn(w) == "accept"

ReturnOnAcceptError == "stopped"

\* if err != nil { log; continue }
AfterAcceptError == "accept"

\* ln.Accept() returned a connection: one worker is spawned for it
AcceptOK ==
    /\ alive /\ acceptor = "accept"
    /\ accepted < MaxConns
    /\ accepted' = accepted + 1
    /\ acceptErr' = "nil"
    /\ afterError' = (acceptErr = "error")
    /\ busyAtAccept' = Cardinality(InProcess)
    /\ wpc' = [wpc EXCEPT ![accepted + 1] = "decode"]
    /\ acceptor' = AfterSpawn(accepted + 1)
    /\ UNCHANGED <<mClient, clientsCreated, alive, exceptServer>>

\* ln.Accept() returned an error
AcceptError ==
    /\ alive /\ acceptor = "accept"
    /\ acceptErr' = "error"
    /\ acceptor' = AfterAcceptError
    /\ UNCHANGED <<accepted, afterError, busyAtAccept, wpc, mClient, clientsCreated,
                   alive, exceptServer>>

\* messages.Decode returns a frame and the pipeline is called, or an error
\* and the worker closes its connection and returns
WorkerDecode(w) ==
    /\ alive /\ wpc[w] = "decode"
    /\ \E got \in BOOLEAN : wpc' = [wpc EXCEPT ![w] = IF got THEN "check" ELSE "closed"]
    /\ UNCHANGED <<acceptor, acceptErr, accepted, afterError, busyAtAccept,
                   mClient, clientsCreated, alive, exceptServer>>

\* if m.Client == nil: the read of the shared field
WorkerCheck(w) ==
    /\ alive /\ wpc[w] = "check"
    /\ wpc' = [wpc EXCEPT ![w] = IF mClient = 0 THEN "connecting" ELSE "session"]
    /\ UNCHANGED <<acceptor, acceptErr, accepted, afterError, busyAtAccept,
                   mClient, clientsCreated, alive, exceptServer>>

\* m.Client, err = mongo.Connect(...): the write of the shared field, with
\* the new client or with nil; on error next is called and Process returns
WorkerConnect(w) ==
    /\ alive /\ wpc[w] = "connecting"
    /\ \E ok \in { b \in BOOLEAN : b => clientsCreated < MaxClients } :
          /\ clientsCreated' = IF ok THEN clientsCreated + 1 ELSE clientsCreated
          /\ mClient' = IF ok THEN clientsCreated + 1 ELSE 0
          /\ wpc' = [wpc EXCEPT ![w] = IF ok THEN "session" ELSE "reply"]
    /\ UNCHANGED <<acceptor, acceptErr, accepted, afterError, busyAtAccept,
                   alive, exceptServer>>

\* session, err := m.Client.StartSession(); defer session.EndSession(ctx):
\* a nil m.Client or a failed start panics
WorkerSession(w) ==
    /\ alive /\ wpc[w] = "session"
    /\ \E ok \in BOOLEAN :
          IF ok /\ mClient # 0
          THEN wpc' = [wpc EXCEPT ![w] = "backend"] /\ UNCHANGED alive
          ELSE wpc' = [wpc EXCEPT ![w] = "panic"] /\ alive' = FALSE
    /\ UNCHANGED <<acceptor, acceptErr, accepted, afterError, busyAtAccept,
                   mClient, clientsCreated, exceptServer>>

\* the switch of Process: the backend answers and Process returns, or the
\* worker panics on a nil cursor
WorkerBackend(w) ==
    /\ alive /\ wpc[w] = "backend"
    /\ \E ok \in BOOLEAN :
          IF ok THEN wpc' = [wpc EXCEPT ![w] = "reply"] /\ UNCHANGED alive
          ELSE wpc' = [wpc EXCEPT ![w] = "panic"] /\ alive' = FALSE
    /\ UNCHANGED <<acceptor, acceptErr, accepted, afterError, busyAtAccept,
                   mClient, clientsCreated, exceptServer>>

\* Encode, then suppress or write and loop, or close on a failure
WorkerReply(w) ==
    /\ alive /\ wpc[w] = "reply"
    /\ \E ok \in BOOLEAN : wpc' = [wpc EXCEPT ![w] = IF ok THEN "decode" ELSE "closed"]
    /\ UNCHANGED <<acceptor, acceptErr, accepted, afterError, busyAtAccept,
                   mClient, clientsCreated, alive, exceptServer>>

WorkerStep ==
    \E w \in Workers :
        \/ WorkerDecode(w)
        \/ WorkerCheck(w)
        \/ WorkerConnect(w)
        \/ WorkerSession(w)
        \/ WorkerBackend(w)
        \/ WorkerReply(w)

NextServer ==
    \/ MainLoadConfig
    \/ MainConfigure
    \/ ServeWithConfig
    \/ Listen
    \/ AcceptOK
    \/ AcceptError
    \/ WorkerStep

SpecServer == Init /\ [][NextServer]_vars

\* ------------------------------------------------- messages.ParseNamespace
MaxNsLen == 5       \* characters of a namespace string

NsChars == {"a", "b", "."}

\* strings are sequences of characters
NsStrings == UNION { [1..n -> NsChars] : n \in 0..MaxNsLen }

\* strings.Index(s, ch) counted from 1: the first position of ch in s at or
\* after i, 0 when there is none
RECURSIVE IndexFrom(_, _, _)
IndexFrom(s, ch, i) ==
    IF i > Len(s) THEN 0
    ELSE IF s[i] = ch THEN i
    ELSE IndexFrom(s, ch, i + 1)

RECURSIVE LastIndexFrom(_, _, _)
LastIndexFrom(s, ch, i) ==
    IF i < 1 THEN 0
    ELSE IF s[i] = ch THEN i
    ELSE LastIndexFrom(s, ch, i - 1)

SplitAt(s, i) ==
    IF i = 0 THEN [database |-> <<>>, collection |-> <<>>, err |-> TRUE]
    ELSE [database |-> SubSeq(s, 1, i - 1), collection |-> SubSeq(s, i + 1, Len(s)),
          err |-> FALSE]

ParseNamespaceAtLast(s) == SplitAt(s, LastIndexFrom(s, ".", Len(s)))

\* database, collection, err := messages.ParseNamespace(s)
ParseNamespace(s) == SplitAt(s, IndexFrom(s, ".", 1))

\* ------------------------------------------------------- server.Config
\* Strings are sequences of pieces; the pieces of the enumerated field
\* values hold none of the separators "://", ":", "@", "/", "?ssl=...".
Configs ==
    { [ZeroConfig EXCEPT !.Scheme = sc, !.Username = u, !.Password = pw,
                         !.Hosts = h, !.Database = db, !.TLS = tls,
                         !.OptParams = op] :
        sc \in {<<>>, <<"mongodb+srv">>}, u \in {<<>>, <<"user">>},
        pw \in {<<>>, <<"pw">>}, h \in {<<>>, <<"h1">>, <<"h1", ",", "h2">>},
        db \in {<<>>, <<"db">>}, tls \in BOOLEAN, op \in {<<>>, <<"&w=1">>} }

AsConnectionStringPasswordAlways(c) ==
    (IF c.Scheme # <<>> THEN c.Scheme \o <<"://">> ELSE <<"mongodb", "://">>)
    \o c.Username
    \o (IF c.Password # <<>> THEN <<":">> \o c.Password ELSE <<>>)
    \o (IF c.Username # <<>> \/ c.Password # <<>> THEN <<"@">> ELSE <<>>)
    \o c.Hosts \o <<"/">> \o c.Database
    \o (IF c.TLS THEN <<"?ssl=true">> ELSE <<"?ssl=false">>)
    \o c.OptParams

\* func (c *Config) AsConnectionString() string; the literal "mongodb://"
\* is written as the pieces "mongodb", "://"
AsConnectionString(c) ==
    LET url1 == IF c.Scheme # <<>> THEN c.Scheme \o <<"://">>
                ELSE <<"mongodb", "://">>
        url2 == IF c.Username # <<>>
                THEN url1 \o c.Username
                     \o (IF c.Password # <<>> THEN <<":">> \o c.Password ELSE <<>>)
                     \o <<"@">>
                ELSE url1
        url3 == url2 \o c.Hosts \o <<"/">> \o c.Database
        url4 == IF c.TLS THEN url3 \o <<"?ssl=true">> ELSE url3 \o <<"?ssl=false">>
    IN  IF c.OptParams # <<>> THEN url4 \o c.OptParams ELSE url4

\* the Config a main holds before it reads the file, every field set to
\* something the file does not hold
OldConfig ==
    [Scheme |-> <<"old">>, Hosts |-> <<"oldhost">>, TLS |-> TRUE,
     Database |-> <<"olddb">>, Username |-> <<"olduser">>,
     Password |-> <<"oldpw">>, Timeout |-> 5, OptParams |-> <<"&old=1">>,
     ReadOnly |-> TRUE, Port |-> 1]

\* the string fields ParseConfigFromFile reads from the "mongod" element,
\* in the order of its type assertions
FileFields ==
    <<"scheme", "addresses", "username", "password", "database", "optParams",
      "tls", "timeout", "port", "readonly">>

\* strconv.Atoi on an unsigned decimal string of characters
Atoi(s) ==
    LET DigitVal ==
            [ch \in {"0", "1", "2", "3", "4", "5", "6", "7", "8", "9"} |->
                CASE ch = "0" -> 0 [] ch = "1" -> 1 [] ch = "2" -> 2
                  [] ch = "3" -> 3 [] ch = "4" -> 4 [] ch = "5" -> 5
                  [] ch = "6" -> 6 [] ch = "7" -> 7 [] ch = "8" -> 8
                  [] ch = "9" -> 9]
        RECURSIVE AtoiFrom(_, _)
        AtoiFrom(i, acc) ==
            IF i > Len(s) THEN acc
            ELSE AtoiFrom(i + 1, 10 * acc + DigitVal[s[i]])
    IN  IF s # <<>> /\ \A i \in DOMAIN s : s[i] \in DOMAIN DigitVal
        THEN [err |-> FALSE, n |-> AtoiFrom(1, 0)]
        ELSE [err |-> TRUE, n |-> 0]

\* if (timeoutStr == "") || (err != nil) { default } else { value }
NumberOr(s, default) ==
    IF s = <<>> \/ Atoi(s).err THEN default ELSE Atoi(s).n

\* the configuration files enumerated: unreadable, not JSON, without a
\* "mongod" element, or with one in which field number bad (0: none) is the
\* first that is absent or not a string
Files ==
    { [NoFile EXCEPT !.readable = FALSE], [NoFile EXCEPT !.readable = TRUE],
      [NoFile EXCEPT !.readable = TRUE, !.json = TRUE] }
    \cup { [readable |-> TRUE, json |-> TRUE, mongod |-> TRUE, bad |-> b,
            badKind |-> k, tls |-> t, timeout |-> to, port |-> po,
            readonly |-> ro] :
             b \in 0..Len(FileFields), k \in {"none", "absent", "number"},
             t \in {<<"true">>, <<"false">>},
             to \in {<<>>, <<"3", "0">>, <<"3", "x">>},
             po \in {<<>>, <<"8", "0">>, <<"x">>},
             ro \in {<<"true">>, <<"yes">>} }

ParseConfigCalls ==
    { [fn |-> "ParseConfigFromFile", file |-> f] :
        f \in { g \in Files : (g.bad = 0) <=> (g.badKind = "none") } }

\* c.<Field> = mongodConfig["<name>"].(string), with the conversions the
\* function applies to tls, timeout, port and readonly: Timeout defaults to
\* time.Duration(20 * time.Second), Port to 27017
SetField(c, i, f) ==
    CASE i = 1 -> [c EXCEPT !.Scheme = <<"mongodb+srv">>]
      [] i = 2 -> [c EXCEPT !.Hosts = <<"h9">>]
      [] i = 3 -> [c EXCEPT !.Username = <<"u9">>]
      [] i = 4 -> [c EXCEPT !.Password = <<"p9">>]
      [] i = 5 -> [c EXCEPT !.Database = <<"db9">>]
      [] i = 6 -> [c EXCEPT !.OptParams = <<"&w=9">>]
      [] i = 7 -> [c EXCEPT !.TLS = (f.tls = <<"true">>)]
      [] i = 8 -> [c EXCEPT !.Timeout = NumberOr(f.timeout, 20)]
      [] i = 9 -> [c EXCEPT !.Port = NumberOr(f.port, 27017)]
      [] i = 10 -> [c EXCEPT !.ReadOnly = (f.readonly = <<"true">>)]

\* func (c *Config) ParseConfigFromFile(configFilename string) error.
\* The assignments run in order; the type assertion x.(string) on an absent
\* or non-string value panics, after the earlier assignments.
ParseConfigFromFile(c, f) ==
    LET RECURSIVE AssignFrom(_, _)
        AssignFrom(cc, i) ==
            IF i > Len(FileFields) THEN [ret |-> "nil", cfg |-> cc]
            ELSE IF f.bad = i THEN [ret |-> "panic", cfg |-> cc]
            ELSE AssignFrom(SetField(cc, i, f), i + 1)
    IN  IF ~f.readable THEN [ret |-> "error", cfg |-> c]
        ELSE IF ~f.json THEN [ret |-> "error", cfg |-> c]
        ELSE IF ~f.mongod THEN [ret |-> "error", cfg |-> c]
        ELSE AssignFrom(c, 1)

\* the calls of pure functions the specification starts from
PureCalls == { [fn |-> "ParseNamespace", arg |-> s] : s \in NsStrings }

InitPure ==
    /\ StageInit
    /\ ChainInit
    /\ ServerInit
    /\ BootInit
    /\ MainInit
    /\ pfOut = NoResult
    /\ cfOut = [done |-> FALSE, ret |-> "none", url |-> <<>>]
    /\ \/ pfIn \in PureCalls /\ cfIn = [fn |-> "none", file |-> NoFile] /\ cfg = ZeroConfig
       \/ pfIn = NoCall /\ cfIn = [fn |-> "AsConnectionString", file |-> NoFile]
             /\ cfg \in Configs
       \/ pfIn = NoCall /\ cfIn \in ParseConfigCalls /\ cfg = OldConfig

ApplyParseNamespace ==
    /\ pfIn.fn = "ParseNamespace" /\ ~pfOut.done
    /\ pfOut' = [done |-> TRUE, val |-> ParseNamespace(pfIn.arg)]
    /\ UNCHANGED <<pfIn, cfg, cfIn, cfOut, exceptPure>>

\* url := c.AsConnectionString()
ApplyAsConnectionString ==
    /\ cfIn.fn = "AsConnectionString" /\ ~cfOut.done
    /\ cfOut' = [done |-> TRUE, ret |-> "returned", url |-> AsConnectionString(cfg)]
    /\ UNCHANGED <<pfIn, pfOut, cfg, cfIn, exceptPure>>

\* err = c.ParseConfigFromFile(configFilename)
ApplyParseConfigFromFile ==
    /\ cfIn.fn = "ParseConfigFromFile" /\ ~cfOut.done
    /\ LET r == ParseConfigFromFile(cfg, cfIn.file)
       IN  /\ cfg' = r.cfg
           /\ cfOut' = [done |-> TRUE, ret |-> r.ret, url |-> <<>>]
    /\ UNCHANGED <<pfIn, pfOut, cfIn, exceptPure>>

NextPure ==
    \/ ApplyParseNamespace
    \/ ApplyAsConnectionString
    \/ ApplyParseConfigFromFile

SpecPure == InitPure /\ [][NextPure]_vars

\* ======================================================================
\* Properties
\* ======================================================================
Last(sq) == sq[Len(sq)]

Ran(o) == \E i \in DOMAIN ops : ops[i].op = o

Returned == pc = "Encode"

Mutations == {"Insert", "Update", "Delete"}

\* C1: once the pipeline has returned for a frame whose op code is
\* OP_INSERT, OP_UPDATE or OP_DELETE, the loop's next step writes nothing to
\* the client, leaves the connection open and is back at Decode, whatever
\* the response holds and whether or not Encode failed.
C1_ReplySuppression ==
    [][ (pc = "Decide" /\ hdr.OpCode \in {"OP_INSERT", "OP_UPDATE", "OP_DELETE"})
        => (wire' = wire /\ connOpen' /\ closeCause' = "none" /\ pc' = "AwaitFrame") ]_vars

\* an OP_INSERT/UPDATE/DELETE frame whose response held an error and whose
\* Encode failed was suppressed, and the next frame has been decoded
C1_Witness ==
    /\ Len(log) >= 2
    /\ Last(log).ev = "Decode"
    /\ log[Len(log) - 1].ev = "Suppress"
    /\ log[Len(log) - 1].encErr
    /\ log[Len(log) - 1].shape = "error"
    /\ wire = <<>>
    /\ connOpen

Sentinel(t) ==
    IF t = "Insert" THEN InsertResponse(-1)
    ELSE IF t = "Update" THEN UpdateResponse(-1, -1)
    ELSE DeleteResponse(-1)

\* operations that reach the backend deployment
BackendOps == {"Connect", "RunCommand", "Find", "RunCommandCursor", "Next", "All"}

\* C2: with ReadOnly set, when Process has returned from an Insert, Update
\* or Delete request it has invoked no backend operation and the response
\* holds the sentinel payload (N = -1, NModified = -1 for Update), no error.
C2_ReadOnlyNeverInvokesBackend ==
    (Returned /\ ReadOnly /\ req.Type \in Mutations)
    => /\ \A i \in DOMAIN ops : ops[i].op \notin BackendOps
       /\ res = [Writer |-> Sentinel(req.Type), CommandError |-> NoCommandError]

\* C3: the worker is always in one of AwaitFrame, Decode, RunPipeline,
\* SuppressReply, Encode&Write; a reply is written only after the decode
\* and the pipeline run of the same frame; and the worker ends only from a
\* read error (EOF included) or a write error.
C3_StateMachine ==
    /\ pc \in {"AwaitFrame", "RunPipeline", "InProcess", "ConnectFailed",
               "Encode", "Decide", "closed"}
    /\ \A i \in DOMAIN log :
          log[i].ev = "Write"
          => /\ i >= 5
             /\ log[i - 4] = Ev("Decode", log[i].id)
             /\ log[i - 3] = Ev("PipelineCall", log[i].id)
             /\ log[i - 2] = Ev("PipelineReturn", log[i].id)
    /\ pc = "closed" => closeCause \in {"eof", "decode", "write"}

PipelineRuns(id) == Cardinality({ i \in DOMAIN log : log[i] = Ev("PipelineCall", id) })

\* C4: every decoded frame gets exactly one pipeline run, started on an
\* empty response, and the decision to suppress, transmit or close on that
\* frame comes only after that run has returned.
C4_PipelineBeforeDecision ==
    /\ pc \in {"InProcess", "ConnectFailed"} => res = EmptyResponse
    /\ \A i \in DOMAIN log :
          /\ log[i].ev = "Decode" /\ i < Len(log)
             => log[i + 1] = Ev("PipelineCall", log[i].id)
          /\ log[i].ev \in {"Suppress", "Write"} \/ (log[i].ev = "Close" /\ log[i].id > 0
                                                     /\ closeCause \in {"encode", "write"})
             => /\ i >= 5
                /\ log[i - 4] = Ev("Decode", log[i].id)
                /\ log[i - 3] = Ev("PipelineCall", log[i].id)
                /\ log[i - 2] = Ev("PipelineReturn", log[i].id)
                /\ log[i - 1] = Ev("Encode", log[i].id)
                /\ PipelineRuns(log[i].id) = 1

\* the second frame's pipeline run has returned after the first frame left
\* a non-empty response, and a suppressed frame went through the pipeline
C4_Witness ==
    /\ pc = "Decide"
    /\ hdr.RequestID = 2
    /\ \E i \in DOMAIN log : log[i].ev = "Suppress" /\ log[i].shape = "payload"
    /\ PipelineRuns(1) = 1
    /\ PipelineRuns(2) = 1

\* C5: frames are handled in arrival order: frame k+1 is decoded only
\* after frame k's pipeline run returned and its reply was written or
\* suppressed, pipeline runs do not overlap, and the replies on the wire
\* answer the requests in request order.
C5_ArrivalOrder ==
    /\ \A i \in DOMAIN log :
          /\ log[i].ev = "Decode"
             => /\ log[i].id = Cardinality({ j \in 1..i : log[j].ev = "Decode" })
                /\ i > 1 => /\ log[i - 1].ev \in {"Suppress", "Write"}
                            /\ log[i - 1].id = log[i].id - 1
          /\ log[i].ev = "PipelineCall" /\ i < Len(log)
             => log[i + 1].ev \in {"PipelineReturn", "Panic"} /\ log[i + 1].id = log[i].id
    /\ \A i, j \in DOMAIN wire : i < j => wire[i].ResponseTo < wire[j].ResponseTo

\* two replies are on the wire, for the first and the second frame
C5_Witness ==
    /\ Len(wire) = 2
    /\ wire[1].ResponseTo = 1
    /\ wire[2].ResponseTo = 2
    /\ pc = "AwaitFrame"

\* C6: whenever the connection is closed the cause is a Decode error (EOF
\* included) or a failed write; no backend error, conversion error or
\* empty/errored response closes it.
C6_OnlyTransportErrorsClose ==
    ~connOpen => closeCause \in {"eof", "decode", "write"}

FindSucceeded ==
    /\ Returned /\ req.Type = "Find" /\ Ran("Find")
    /\ scn.issueErr = NilErr /\ scn.iterErr = NilErr

\* C7: a Find with positive limit L over a result set of M documents that
\* the backend serves without error yields a FindResponse, no error, with
\* the first min(L, M) documents of the result set in cursor order.
C7_FindPagination ==
    (FindSucceeded /\ req.Limit > 0)
    => /\ ~res.CommandError.set
       /\ res.Writer.kind = "Find"
       /\ Len(res.Writer.Documents) = Min(req.Limit, Len(scn.docs))
       /\ \A i \in DOMAIN res.Writer.Documents : res.Writer.Documents[i] = scn.docs[i]

\* limit 1 over a result set of 2 documents
C7_Witness ==
    /\ FindSucceeded /\ req.Limit = 1 /\ Len(scn.docs) = 2
    /\ res.Writer.Documents = <<1>>

\* the backend says the cursor does not exist: the driver's ErrNilCursor
\* or the server's CursorNotFound command error
CursorGone(e) ==
    \/ e = ErrNilCursor
    \/ e.kind = "CommandError" /\ e.Code = 43

\* the error the backend reported to this GetMore, NilErr if none: at the
\* cursor command, or from the cursor once the loop asked for document
\* iterOK + 1
GetMoreReported ==
    IF req.Type # "GetMore" \/ ~Ran("RunCommandCursor") THEN NilErr
    ELSE IF scn.issueErr # NilErr THEN scn.issueErr
    ELSE IF scn.iterErr # NilErr /\ scn.iterOK < req.BatchSize THEN scn.iterErr
    ELSE NilErr

\* C8: a GetMore for which the backend reports that the cursor does not
\* exist, at the cursor command or while iterating, ends with the
\* invalid-cursor response (InvalidCursor, the request's cursor id, no
\* documents) and no command error.
C8_InvalidCursorResponse ==
    (pc \in {"Encode", "crashed"} /\ CursorGone(GetMoreReported))
    => /\ pc = "Encode"
       /\ res = [Writer |-> GetMoreResponse(req, <<>>, TRUE),
                 CommandError |-> NoCommandError]

\* C9: a GetMore whose cursor is exhausted after k < BatchSize documents,
\* without error, yields a GetMoreResponse with exactly those k documents,
\* InvalidCursor false, and no error.
C9_ExhaustedCursor ==
    (Returned /\ req.Type = "GetMore" /\ Ran("RunCommandCursor")
       /\ scn.issueErr = NilErr /\ scn.iterErr = NilErr
       /\ Len(scn.docs) < req.BatchSize)
    => res = [Writer |-> GetMoreResponse(req, scn.docs, FALSE),
              CommandError |-> NoCommandError]

\* batch size 2, one document left in the cursor
C9_Witness ==
    /\ Returned /\ req.Type = "GetMore" /\ req.BatchSize = 2
    /\ scn.issueErr = NilErr /\ scn.iterErr = NilErr /\ scn.docs = <<1>>
    /\ res.Writer.kind = "GetMore" /\ res.Writer.Documents = <<1>>

\* C10: a genuine backend error during GetMore, at the cursor command or
\* while iterating, leaves the response with a command error carrying the
\* backend's code and message, and without a GetMore payload.
C10_GetMoreBackendError ==
    (pc \in {"Encode", "crashed"} /\ GetMoreReported # NilErr /\ ~CursorGone(GetMoreReported))
    => /\ res.CommandError.set
       /\ res.Writer = NoWriter
       /\ GetMoreReported.kind = "CommandError"
          => /\ res.CommandError.ErrorCode = GetMoreReported.Code
             /\ res.CommandError.Message = GetMoreReported.Message

\* the backend answered the RunCommand of this Command, Insert, Update or
\* Delete with a reply document (no transport error)
GotReply ==
    /\ Returned /\ req.Type \in {"Command"} \cup Mutations
    /\ Ran("RunCommand") /\ scn.issueErr = NilErr

\* C11: for Command, Insert, Update and Delete, a backend reply whose "ok"
\* is zero, false or absent leaves the response with a command error
\* carrying the reply's code and errmsg, and with no payload.
C11_FailedReplyBecomesError ==
    (GotReply /\ scn.reply.ok \in {"0", "false", "absent"})
    => res = [Writer |-> NoWriter,
              CommandError |-> [set |-> TRUE, ErrorCode |-> scn.reply.code,
                                Message |-> scn.reply.errmsg]]

\* an Update answered by a reply whose "ok" is false
C11_Witness ==
    /\ GotReply /\ req.Type = "Update" /\ scn.reply.ok = "false"
    /\ res.CommandError.set /\ res.CommandError.ErrorCode = 2

\* the error the backend call of this request returned (RunCommand, Find,
\* RunCommandCursor), NilErr if it returned none or was not made
TransportError ==
    IF req.Type \in {"Command", "Find", "GetMore"} \cup Mutations THEN scn.issueErr ELSE NilErr

\* C12: for Command, Find, Insert, Update, Delete and GetMore, a transport
\* error of the backend call leaves the response with a command error, the
\* backend's code and message when the error is typed and -1 "Unknown
\* error" otherwise, and never with neither payload nor error.
C12_TransportErrorBecomesCommandError ==
    (pc \in {"Encode", "crashed"} /\ TransportError # NilErr /\ ~CursorGone(TransportError))
    => /\ res.Writer = NoWriter
       /\ res.CommandError =
            IF TransportError.kind = "CommandError"
            THEN [set |-> TRUE, ErrorCode |-> TransportError.Code,
                  Message |-> TransportError.Message]
            ELSE [set |-> TRUE, ErrorCode |-> -1, Message |-> "Unknown error"]

\* the error the backend reported to this Find, NilErr if none: when the
\* cursor was opened, or from the cursor once the fetch asked for document
\* iterOK + 1
FindReported ==
    IF req.Type # "Find" \/ ~Ran("Find") THEN NilErr
    ELSE IF scn.issueErr # NilErr THEN scn.issueErr
    ELSE IF scn.iterErr # NilErr /\ (req.Limit = 0 \/ scn.iterOK < req.Limit) THEN scn.iterErr
    ELSE NilErr

\* operations that fetch from a cursor
FetchOps == {"Next", "All", "Decode"}

\* position in ops of the operation that failed: Find itself, or the last
\* Next / All
FailedAt ==
    IF scn.issueErr # NilErr
    THEN CHOOSE i \in DOMAIN ops : ops[i].op = "Find"
    ELSE CHOOSE i \in DOMAIN ops :
             /\ ops[i].op \in {"Next", "All"}
             /\ \A j \in DOMAIN ops : ops[j].op \in {"Next", "All"} => j <= i

\* C13: an error while opening or iterating a Find cursor aborts the fetch
\* as a command error: the response holds an error and no FindResponse, no
\* cursor operation follows the failure, and Process returns normally.
C13_FindErrorAbortsFetch ==
    (pc \in {"Encode", "crashed"} /\ FindReported # NilErr)
    => /\ pc = "Encode"
       /\ res.CommandError.set
       /\ res.Writer = NoWriter
       /\ \A j \in DOMAIN ops : j > FailedAt => ops[j].op \notin FetchOps

\* a response holding both a payload and an error
HoldsBoth(r) == r.Writer.kind # "nil" /\ r.CommandError.set

\* C14: after a stage's Process has returned, MongodModule.Process as well
\* as BIModule.Process, on any path, the response it was given holds at
\* most one of payload and error, never both.
C14_PayloadXorError ==
    /\ biPc \in {"copy", "dial", "aggregate", "returned"} => ~HoldsBoth(resNext)
    /\ biPc = "returned" => ~HoldsBoth(biRes)

\* BIModule has returned after copying a downstream error for an Insert:
\* it called both res.Write and res.Error
C14_Witness ==
    /\ biPc = "returned" /\ biReq.Type = "Insert"
    /\ resNext.CommandError.set /\ biRes.CommandError.set
    /\ biRes.Writer = NoWriter

\* number of operations o the current Process call has issued
Count(o) == Cardinality({ i \in DOMAIN ops : ops[i].op = o })

\* C15: a Process call that obtained the backend client derives exactly one
\* session and releases it exactly once by the time the call ends, on every
\* exit path, a failed session start included.
C15_SessionLeasing ==
    (pc \in {"Encode", "crashed"} /\ Ran("StartSession"))
    => (Count("StartSession") = 1 /\ Count("EndSession") = 1)

ConnectsIn(o) == Cardinality({ i \in DOMAIN o : o[i].op = "Connect" })

\* C18: the backend handle is established lazily and reused: before the
\* first request no connection has been attempted and the handle is unset;
\* once a connection attempt has succeeded no step attempts another and the
\* handle stays the one that was established.
C18_LazyReusedHandle ==
    [][ /\ nread' = 0 => (Client' = "nil" /\ ConnectsIn(ops') = 0)
        /\ Client # "nil" => (Client' = Client /\ ConnectsIn(ops') <= ConnectsIn(ops)) ]_vars

\* the second request of the connection was served by the handle the first
\* one established: its Process call made no connection attempt
C18_Witness ==
    /\ Returned /\ nread = 2 /\ Client = "client"
    /\ Ran("RunCommand") /\ ~Ran("Connect")

\* enter 1 .. enter n, then exit n .. exit 1
EnterExitOrder(n, rq) ==
    [k \in 1..(2 * n) |->
        IF k <= n THEN StageEv("enter", k, rq) ELSE StageEv("exit", 2 * n + 1 - k, rq)]

\* C17: a pipeline built from N stages, each recording an event before and
\* after calling next, records enter 1..N then exit N..1 when called: at
\* any moment the events are a prefix of that order (so no stage is entered
\* twice), and when the call has returned they are all of it.
C17_PipelineOrder ==
    chainLen > 0 =>
       /\ Len(chainLog) <= 2 * chainLen
       /\ chainLog = SubSeq(EnterExitOrder(chainLen, chainReq), 1, Len(chainLog))
       /\ (chainStack = <<>> /\ chainReq # NoReq) => Len(chainLog) = 2 * chainLen

\* a call of a pipeline of three stages has returned
C17_Witness ==
    /\ chainLen = 3 /\ chainStack = <<>>
    /\ Len(chainLog) = 6
    /\ chainLog[3] = StageEv("enter", 3, chainReq) /\ chainLog[4] = StageEv("exit", 3, chainReq)

\* two workers access m.Client with nothing ordering them, one of them
\* writing: a is about to assign it while b is about to read or assign it
Racing ==
    \E a, b \in Workers :
        /\ a # b
        /\ wpc[a] = "connecting"
        /\ wpc[b] \in {"check", "connecting", "session"}

\* C19: workers share no unsynchronized mutable state: when workers are in
\* Process with the handle unset, the handle is initialized once, under a
\* guard: at most one client is ever created and no worker accesses the
\* handle while another is writing it.
C19_GuardedInitialization ==
    /\ clientsCreated <= 1
    /\ ~Racing

\* workers spawned so far
Spawned == { w \in Workers : wpc[w] # "unborn" }

\* C20: the acceptor loop of Start spawns exactly one worker per accepted
\* connection and never waits for a worker: once it accepts it stays at
\* Accept whatever the workers do, a further connection can be accepted
\* while earlier workers are blocked, and a failed Accept does not stop it.
C20_AcceptorNeverWaits ==
    /\ [](Cardinality(Spawned) = accepted)
    /\ []((alive /\ acceptor = "accept" /\ accepted < MaxConns) => ENABLED AcceptOK)
    /\ [][ /\ acceptor = "accept" => acceptor' = "accept"
           /\ accepted' # accepted
              => /\ accepted' = accepted + 1
                 /\ wpc' = [wpc EXCEPT ![accepted + 1] = "decode"] ]_vars

\* the second connection was accepted right after a failed Accept, while
\* the first worker was inside Process, and that worker is still blocked
C20_Witness ==
    /\ accepted = 2 /\ afterError /\ busyAtAccept = 1
    /\ wpc[1] = "backend" /\ wpc[2] # "unborn"
    /\ acceptor = "accept"

\* C21: connections are independent: a step of one worker (a decode error,
\* a write error, a backend error, a backend call that returns late)
\* changes that worker's position only; the process stays alive, so every
\* other worker can go on with its frames, and the acceptor stays where it
\* was.
C21_ConnectionsIndependent ==
    [][ \A w \in Workers :
            wpc'[w] # wpc[w]
            => /\ alive'
               /\ acceptor' = acceptor
               /\ \A v \in Workers \ {w} : wpc'[v] = wpc[v] ]_vars

\* C22: a configuration error is fatal to the startup: when loading the
\* configuration (or Configure) has returned an error, the chain is not
\* built and Start does not listen.
C22_ConfigErrorIsFatal ==
    cfgLoad = "error" => (boot # "built" /\ acceptor = "init")

\* a request is being processed by the stage of the chain
ServingRequest == \E w \in Workers : wpc[w] \in {"check", "connecting", "session", "backend"}

\* C23: when the server was started by StartWithConfig(port, config), the
\* backend stage that processes requests has been configured from config:
\* Configure was called on it and its read-only flag is the configuration's.
C23_StartWithConfigConfigures ==
    (entry = "StartWithConfig" /\ ServingRequest)
    => (modConfigured /\ modReadOnly = cfgReadOnly)

\* the Write events of the log, oldest first
WriteEvents == SelectSeq(log, LAMBDA e : e.ev = "Write")

\* C24: the response-to of every reply written is the request id of the
\* frame it answers: the header given to Encode is the one decoded with
\* the request whose pipeline run produced the response, so the replies on
\* the wire carry, in order, the ids of the frames that were answered.
C24_ResponseTo ==
    /\ Len(wire) = Len(WriteEvents)
    /\ \A i \in DOMAIN wire : wire[i].ResponseTo = WriteEvents[i].id
    /\ (pc = "Decide" /\ ~enc.err)
       => /\ hdr.RequestID = nread
          /\ enc.bytes = ReplyFrame(hdr, res)
          /\ log[Len(log) - 1] = Ev("PipelineReturn", nread)

\* the first frame was suppressed and the second answered: the only reply
\* on the wire answers request 2
C24_Witness ==
    /\ Len(wire) = 1 /\ wire[1].ResponseTo = 2
    /\ \E i \in DOMAIN log : log[i].ev = "Suppress" /\ log[i].id = 1

\* s has a separator
HasSeparator(s) == \E i \in DOMAIN s : s[i] = "."

\* C25: ParseNamespace splits at the first separator only: for a string
\* with a separator the database is what precedes the first separator (it
\* holds none) and the collection is all that follows it, further
\* separators included; a string with no separator gives an error and no
\* namespace.
C25_ParseNamespace ==
    (pfIn.fn = "ParseNamespace" /\ pfOut.done)
    => LET s == pfIn.arg
           r == pfOut.val
       IN  IF HasSeparator(s)
           THEN /\ ~r.err
                /\ ~HasSeparator(r.database)
                /\ r.database \o <<".">> \o r.collection = s
           ELSE r.err /\ r.database = <<>> /\ r.collection = <<>>

\* "a.b.a" was parsed: database "a", collection "b.a"
C25_Witness ==
    /\ pfIn = [fn |-> "ParseNamespace", arg |-> <<"a", ".", "b", ".", "a">>]
    /\ pfOut.done
    /\ pfOut.val = [database |-> <<"a">>, collection |-> <<"b", ".", "a">>, err |-> FALSE]

\* C27: on every path where MongodModule.Process calls next, the request
\* handed to next is the request Process received (the "ismaster" rewrite
\* reaches only the document run on the backend), and the response handed
\* to next already carries every payload or error Process writes for the
\* request: the response after Process returns is the one next was given.
C27_PassesOnUnchangedAfterWriting ==
    /\ Len(nextArgs) = nextCalls
    /\ \A i \in DOMAIN nextArgs : nextArgs[i].req = req
    /\ Returned => \A i \in DOMAIN nextArgs : nextArgs[i].res = res

\* an "ismaster" command ran on the backend as "isMaster", its reply was
\* written, and next was then given the original request and that reply
C27_Witness ==
    /\ Returned
    /\ req.Type = "Command" /\ req.CommandName = "ismaster"
    /\ \E i \in DOMAIN ops : ops[i] = Op("RunCommand", "isMaster")
    /\ nextCalls = 1
    /\ nextArgs[1].req.CommandName = "ismaster"
    /\ nextArgs[1].res.Writer.kind # "nil"

\* operations Process makes before it looks at the request: the lazy
\* connect of the stage and the session of the call
BeforeSwitch == {"Connect", "StartSession", "EndSession"}

C29_NoRetries ==
    req.Type \in {"Command"} \cup Mutations
    => /\ Count("RunCommand") <= 1
       /\ Count("Connect") <= 1
       /\ \A i \in DOMAIN ops : ops[i].op \in BeforeSwitch \cup {"RunCommand"}
       /\ (Returned /\ scn.issueErr # NilErr) => Count("RunCommand") = 1

\* an Insert whose backend command failed: Process has returned after
\* exactly one RunCommand
C29_Witness ==
    /\ Returned /\ req.Type = "Insert" /\ req.convOK /\ ~ReadOnly
    /\ scn.issueErr # NilErr
    /\ Count("RunCommand") = 1 /\ nextCalls = 1

BINextCalls == Cardinality({ i \in DOMAIN biOps : biOps[i].op = "next" })

\* C30: BIModule.Process calls next exactly once and before any action of
\* its own (until then it has run no operation and written nothing to its
\* caller's response); when it has returned, its caller's response holds
\* the downstream payload and, when the downstream outcome is an error,
\* that error's code and message, and in that case the call of next is the
\* only operation of the call: no dial, no session copy, no update command.
C30_ObserverStage ==
    /\ biPc \in {"idle", "next"} => (biOps = <<>> /\ biRes = EmptyResponse)
    /\ biPc \notin {"idle", "next"} => (biOps[1] = Op("next", "") /\ BINextCalls = 1)
    /\ biPc = "returned"
       => /\ biRes.Writer = resNext.Writer
          /\ biRes.CommandError = resNext.CommandError
          /\ resNext.CommandError.set => biOps = <<Op("next", "")>>

\* an Insert for which the rules derive updates travelled down the chain
\* and came back with an error: the error was copied, nothing was aggregated
C30_Witness ==
    /\ biPc = "returned" /\ biReq.Type = "Insert" /\ biUpdates > 0
    /\ resNext.CommandError.set
    /\ biRes.CommandError = resNext.CommandError
    /\ biOps = <<Op("next", "")>>

\* C31: every GetMoreResponse the backend stage writes (documents returned,
\* cursor exhausted, or invalid cursor) carries the CursorID, Database and
\* Collection of the GetMore request it answers, never another id.
C31_CursorIdRoundTrip ==
    (Returned /\ req.Type = "GetMore" /\ res.Writer.kind # "nil")
    => /\ res.Writer.kind = "GetMore"
       /\ res.Writer.CursorID = req.CursorID
       /\ res.Writer.Database = req.Database
       /\ res.Writer.Collection = req.Collection

\* a GetMore on cursor 9 of db2.c2 whose cursor ran out before the batch
\* was full: the response still names cursor 9 of db2.c2
C31_Witness ==
    /\ Returned /\ req.Type = "GetMore" /\ req.CursorID = 9 /\ req.BatchSize = 2
    /\ res.Writer.kind = "GetMore" /\ ~res.Writer.InvalidCursor
    /\ Len(res.Writer.Documents) = 1
    /\ res.Writer.CursorID = 9 /\ res.Writer.Database = "db2"
    /\ res.Writer.Collection = "c2"

\* the invalid-cursor response names the request's cursor as well
C31_WitnessInvalid ==
    /\ Returned /\ req.Type = "GetMore" /\ req.CursorID = 7
    /\ res.Writer.InvalidCursor /\ res.Writer.CursorID = 7

\* C34: when the read-only test of an Insert, Update or Delete case is
\* reached (the session was started and the conversion succeeded), a set
\* ReadOnly makes Process write the sentinel and return without calling
\* next and without a backend command; with ReadOnly unset the same request
\* reaches next exactly once.
C34_ReadOnlyEndsThePipeline ==
    (Returned /\ req.Type \in Mutations /\ req.convOK /\ Ran("EndSession"))
    => IF ReadOnly
       THEN nextCalls = 0 /\ nextArgs = <<>> /\ ~Ran("RunCommand")
            /\ res.Writer = Sentinel(req.Type)
       ELSE nextCalls = 1 /\ nextArgs[1].req = req

\* a read-only Update was short-circuited: sentinel written, next not called
C34_Witness ==
    /\ Returned /\ ReadOnly /\ req.Type = "Update" /\ req.convOK
    /\ Ran("EndSession") /\ nextCalls = 0
    /\ res.Writer = UpdateResponse(-1, -1)

\* C35: a failed connection attempt in MongodModule.Process leaves the
\* response untouched, calls next exactly once, derives no session and runs
\* no backend operation besides the attempt itself, and leaves the handle
\* unset; a request that finds the handle unset attempts the connection
\* again as the first thing it does.
C35_FailedConnectLeavesStageUsable ==
    /\ [](pc = "ConnectFailed"
            => /\ Client = "nil"
               /\ ops = <<Op("Connect", "")>>
               /\ res = EmptyResponse
               /\ nextCalls = 1 /\ nextArgs = <<[req |-> req, res |-> EmptyResponse]>>
               /\ connOpen)
    /\ [][ (pc = "RunPipeline" /\ pc' # pc /\ Client = "nil")
             => (ops' = <<Op("Connect", "")>> /\ pc' \in {"InProcess", "ConnectFailed"}) ]_vars
    /\ [][ pc = "ConnectFailed" => (pc' = "Encode" /\ Client' = "nil" /\ res' = res) ]_vars

\* the connection attempt of the first request failed, and the second
\* request has attempted the connection again
C35_Witness ==
    /\ nread = 2 /\ pc \in {"ConnectFailed", "InProcess"}
    /\ ops = <<Op("Connect", "")>>
    /\ \E i \in DOMAIN log : log[i] = Ev("PipelineReturn", 1)

PassKinds == {"Msg", "KillCursors", "Other"}

\* C37: for a request of a kind the backend stage does not execute (Msg,
\* KillCursors, Other) a Process call that returns has run no backend
\* operation for it (at most the stage's lazy connect and the call's
\* session), has left the response as it received it, and has called next
\* exactly once with that request and response.
C37_UnsupportedPassesThrough ==
    (Returned /\ req.Type \in PassKinds)
    => /\ \A i \in DOMAIN ops : ops[i].op \in BeforeSwitch
       /\ res = EmptyResponse
       /\ nextCalls = 1
       /\ nextArgs = <<[req |-> req, res |-> EmptyResponse]>>

\* a frame with an unknown op code went through the switch untouched
C37_Witness ==
    /\ Returned /\ req.Type = "Other" /\ hdr.OpCode = "OP_OTHER"
    /\ Ran("EndSession") /\ res = EmptyResponse /\ nextCalls = 1

\* C38: cursor iteration in Process is bounded by the request: a Find with
\* a positive limit L advances the cursor at most L times (and does not
\* drain it with All), a GetMore with batch size B advances it at most B
\* times, and not at all when B <= 0, in which case a successfully issued
\* GetMore returns an empty document list and no error.  A Process call in
\* progress can always take its step, and that step ends the call.
C38_BoundedIteration ==
    /\ [](/\ (req.Type = "Find" /\ req.Limit > 0)
                => (Count("Next") <= req.Limit /\ ~Ran("All"))
          /\ req.Type = "GetMore"
                => Count("Next") <= (IF req.BatchSize > 0 THEN req.BatchSize ELSE 0)
          /\ (Returned /\ req.Type = "GetMore" /\ req.BatchSize <= 0
                /\ Ran("RunCommandCursor"))
                => /\ Count("Next") = 0
                   /\ res = [Writer |-> GetMoreResponse(req, <<>>, FALSE),
                             CommandError |-> NoCommandError]
          /\ pc = "InProcess" => ENABLED <<Next>>_vars)
    /\ [][ pc = "InProcess" => pc' \in {"Encode", "crashed"} ]_vars

\* a GetMore with batch size 1 on a cursor that holds two documents took
\* one document and stopped
C38_Witness ==
    /\ Returned /\ req.Type = "GetMore" /\ req.BatchSize = 1
    /\ Len(scn.docs) = 2 /\ Count("Next") = 1
    /\ Len(res.Writer.Documents) = 1

\* a GetMore with a negative batch size did not touch the cursor
C38_WitnessNegative ==
    /\ Returned /\ req.Type = "GetMore" /\ req.BatchSize = -1
    /\ Ran("RunCommandCursor") /\ Count("Next") = 0
    /\ res.Writer.kind = "GetMore" /\ res.Writer.Documents = <<>>

\* the piece t occurs in the string u
HasPiece(u, t) == \E i \in DOMAIN u : u[i] = t

\* C39: AsConnectionString returns scheme + "://" + credentials + hosts +
\* "/" + database + ssl flag + OptParams, where the scheme is "mongodb"
\* when Scheme is empty, the credentials are "user@" or "user:password@"
\* and appear only when Username is non-empty (a password is never written
\* without a username), and the flag is "?ssl=true" exactly when TLS is set
\* and "?ssl=false" otherwise.
C39_AsConnectionString ==
    (cfIn.fn = "AsConnectionString" /\ cfOut.done)
    => LET c == cfg
           u == cfOut.url
           scheme == IF c.Scheme = <<>> THEN <<"mongodb">> ELSE c.Scheme
           cred == IF c.Username = <<>> THEN <<>>
                   ELSE IF c.Password = <<>> THEN c.Username \o <<"@">>
                   ELSE c.Username \o <<":">> \o c.Password \o <<"@">>
           flag == IF c.TLS THEN "?ssl=true" ELSE "?ssl=false"
       IN  /\ u = scheme \o <<"://">> \o cred \o c.Hosts \o <<"/">>
                  \o c.Database \o <<flag>> \o c.OptParams
           /\ HasPiece(u, "@") <=> c.Username # <<>>
           /\ HasPiece(u, ":") <=> (c.Username # <<>> /\ c.Password # <<>>)
           /\ HasPiece(u, "pw") => HasPiece(u, "user")
           /\ HasPiece(u, "?ssl=true") <=> c.TLS
           /\ HasPiece(u, "?ssl=false") <=> ~c.TLS
           /\ cfg \in Configs

\* a Config with a password but no username, no scheme and TLS set: the
\* password is left out and the default scheme is used
C39_Witness ==
    /\ cfIn.fn = "AsConnectionString" /\ cfOut.done
    /\ cfg.Username = <<>> /\ cfg.Password = <<"pw">> /\ cfg.Scheme = <<>>
    /\ cfOut.url = <<"mongodb", "://", "h1", ",", "h2", "/", "db", "?ssl=true", "&w=1">>

\* the file can be read, is JSON, and holds a "mongod" element whose
\* expected fields are all strings
UsableFile(f) == f.readable /\ f.json /\ f.mongod /\ f.bad = 0

\* the Config a usable file describes
ConfigInFile(f) ==
    [Scheme |-> <<"mongodb+srv">>, Hosts |-> <<"h9">>,
     TLS |-> (f.tls = <<"true">>), Database |-> <<"db9">>,
     Username |-> <<"u9">>, Password |-> <<"p9">>,
     Timeout |-> IF f.timeout = <<"3", "0">> THEN 30 ELSE 20,
     OptParams |-> <<"&w=9">>, ReadOnly |-> (f.readonly = <<"true">>),
     Port |-> IF f.port = <<"8", "0">> THEN 80 ELSE 27017]

\* C40: ParseConfigFromFile returns an error, without aborting the process
\* and without changing any field of the Config, whenever the file cannot
\* be read, is not valid JSON or lacks a usable "mongod" element (absent,
\* or an expected string field absent or not a string); it returns nil
\* only after every field has been set from the file, with Timeout 20
\* seconds and Port 27017 when their values are empty or not numeric.
C40_ParseConfigFromFile ==
    (cfIn.fn = "ParseConfigFromFile" /\ cfOut.done)
    => LET f == cfIn.file
       IN  IF ~UsableFile(f)
           THEN cfOut.ret = "error" /\ cfg = OldConfig
           ELSE cfOut.ret = "nil" /\ cfg = ConfigInFile(f)

\* what holds of ParseConfigFromFile: the three error returns leave the
\* Config alone, a usable file sets every field and returns nil, and an
\* absent or non-string field ends the call in a panic after the fields
\* before it were overwritten
ParseConfigFromFileAsCoded ==
    (cfIn.fn = "ParseConfigFromFile" /\ cfOut.done)
    => LET f == cfIn.file
       IN  /\ (~f.readable \/ ~f.json \/ ~f.mongod)
                => (cfOut.ret = "error" /\ cfg = OldConfig)
           /\ UsableFile(f)
                => (cfOut.ret = "nil" /\ cfg = ConfigInFile(f))
           /\ (f.mongod /\ f.bad # 0) => cfOut.ret = "panic"
           /\ (f.mongod /\ f.bad = 1) => cfg = OldConfig
           /\ (f.mongod /\ f.bad > 1)
                => (cfg.Scheme = <<"mongodb+srv">> /\ cfg.ReadOnly = OldConfig.ReadOnly)

====
